---- MODULE Spec2Model ----
(***************************************************************************)
(* Thread-forest reconstruction of the Twitter API viewer.                 *)
(*                                                                         *)
(*   twitterService (src/unnamed/part_001):                                *)
(*     processRawTweet, createCleanRepliedToTweet, fetchUserTweets,        *)
(*     organizeTweetsIntoThreads                                           *)
(*     advancedSearch                                                      *)
(*   App (src/App.tsx): handleFetch, handleAdvancedSearch, renderResults   *)
(*                                                                         *)
(* Conventions of the model                                                *)
(*   - ids and conversation ids are positive integers; 0 stands for every  *)
(*     falsy value of the field (undefined, null, "").                     *)
(*   - an optional object (replied_to, repliedTo, ref.tweet) is a sequence *)
(*     of length 0 (absent) or 1 (the object).                             *)
(*   - createdAt is the millisecond value new Date(createdAt).getTime()    *)
(*     yields; only valid dates are modelled.                              *)
(*   - a record of the model carries the fields of the JavaScript object   *)
(*     that some code of the repository reads.                             *)
(*   - a batch that is an array is the sequence of its records; batchKind  *)
(*     says what the response holds instead when it is no array: "null"    *)
(*     for every falsy value, "other" for every truthy value that is no    *)
(*     array (an object, a string, a number, true).                        *)
(***************************************************************************)
EXTENDS Integers, Sequences, FiniteSets, TLC

VARIABLES
    phase,            \* "idle" | "loaded" | "rendered" | "organized", and
                      \* "reloaded" | "rerendered" for a second fetch
    batchKind,        \* the JSON value at each of the three locations of
                      \* the response: "array" | "null" | "other"
    rawTweets,        \* apiResponse.data.tweets           (primary batch)
    includesTweets,   \* apiResponse.data.includes.tweets  (included batch)
    repliedToTweets,  \* apiResponse.data.replied_to_tweets
    responseData,     \* App state: result.tweets of the last fetch
    error,            \* App state: "" or the message of the caught error
    rendered,         \* what renderResults lays out
    tweets,           \* argument of a direct organizeTweetsIntoThreads call
    forest,           \* its return value
    heap,             \* organizeTweetsIntoThreads step by step: the objects
                      \* it reads and creates; a reference is an index
    stack,            \* the attachChildren calls that have not returned
    processedIdSet,   \* the processedIds set of the current conversation
    rootTweets,       \* references pushed to rootTweets so far
    cursor,           \* position of conversationMap.forEach and of
                      \* rootTweetsInConversation.forEach
    isLoading,        \* App state
    nextCursor,       \* App state: 0 for '', else a cursor
    hasNextPage,      \* App state
    activeTab,        \* App state: "user" | "advancedSearch"
    pending           \* requests awaited by a handler, oldest first

vars == <<phase, batchKind, rawTweets, includesTweets, repliedToTweets,
          responseData, error, rendered, tweets, forest,
          heap, stack, processedIdSet, rootTweets, cursor,
          isLoading, nextCursor, hasNextPage, activeTab, pending>>

organizeVars == <<heap, stack, processedIdSet, rootTweets, cursor>>

loadVars == <<isLoading, nextCursor, hasNextPage, activeTab, pending>>

----------------------------------------------------------------------------
(* Bounds of the model.                                                    *)

MaxId == 3          \* ids are 1..MaxId
MaxMain == 2        \* length of the primary batch
MaxSupp == 1        \* length of the included and of the replied-to batch
MaxTime == 3        \* createdAt is 1..MaxTime
MaxConv == 2        \* conversation ids of a timeline page are 1..MaxConv
MaxPage == 3        \* length of the primary batch of a timeline page
MaxThread == 4      \* length of a page that is one conversation
MaxTweets == 3      \* length of a list handed to organizeTweetsIntoThreads
MaxTarget == 2      \* reply targets of a record under resolution: 1..MaxTarget
MaxCount == 1       \* engagement counts are 0..MaxCount
MaxNode == 2        \* ids of a list organized step by step: 0..MaxNode
MaxDepth == 4       \* attachChildren calls that may be open at once
MaxCursor == 2      \* pagination cursors are 1..MaxCursor
MaxLoaded == 3      \* handleLoadMore is not clicked past this many records
MaxPending == 2     \* requests that may be awaited at once

Ids == 1..MaxId
Times == 1..MaxTime

----------------------------------------------------------------------------
(* Generic helpers.                                                        *)

\* a || b on id-like values (0 is the falsy value)
Or(a, b) == IF a # 0 THEN a ELSE b

\* a || b on optional objects
OrOpt(a, b) == IF Len(a) > 0 THEN a ELSE b

\* a || b on optional numbers: undefined and 0 are both falsy
OrNum(a, b) == IF Len(a) > 0 /\ a[1] # 0 THEN a ELSE b

\* Array.prototype.find over the elements that satisfy its predicate: the
\* first of them, as an optional
First(hits) == IF Len(hits) > 0 THEN <<hits[1]>> ELSE <<>>

\* The index Array.prototype.find stops at, given the predicate's value at
\* every index (1-based, 0 when nothing matches)
FirstIndex(flags) ==
    IF \E i \in 1..Len(flags) : flags[i]
    THEN CHOOSE i \in 1..Len(flags) :
             flags[i] /\ \A j \in 1..(i - 1) : ~flags[j]
    ELSE 0

\* The sequences over S of length n.
SeqsOf(S, n) == [1..n -> S]

----------------------------------------------------------------------------
(* Raw records of the API response.                                        *)

\* A raw record with every reply field empty.
RawTweet(id, createdAt, conversationId) ==
    [id |-> id, createdAt |-> createdAt, conversationId |-> conversationId,
     isReply |-> "undef",              \* "undef" | "true" | "false"
     in_reply_to_status_id |-> 0,      \* first of the six replyId candidates
     inReplyToId |-> 0,                \* the explicit reply-target field
     replied_to |-> <<>>,              \* inline reply target (snake_case)
     repliedTo |-> <<>>,               \* inline reply target (camelCase)
     referenced_tweets |-> <<>>,       \* <<[type, id, tweet]>>
     children |-> <<>>,
     viewCount |-> <<>>,               \* optional numbers: <<>> or <<n>>
     view_count |-> <<>>,
     impression_count |-> <<>>,        \* public_metrics?.impression_count
     likeCount |-> <<>>,
     like_count |-> <<>>,
     metrics_like_count |-> <<>>]      \* public_metrics?.like_count

\* A raw record as the API nests it inside another one: it carries its own
\* reply target, its own children and its own reply linkage.
NestedRaw(id) ==
    [RawTweet(id, 1, id) EXCEPT
        !.isReply = "true",
        !.inReplyToId = id,
        !.in_reply_to_status_id = id,
        !.repliedTo = <<RawTweet(id, 1, 0)>>,
        !.replied_to = <<RawTweet(id, 1, 0)>>,
        !.children = <<RawTweet(id, 1, 0)>>]

----------------------------------------------------------------------------
(* twitterService: normalisation.                                          *)

\* The Tweet fields no reply snapshot may carry.
NestingFields ==
    {"repliedTo", "replied_to", "children", "isReply", "inReplyToId",
     "inReplyToStatusId", "in_reply_to_status_id", "conversationId",
     "referencedTweets", "referenced_tweets"}

\* createCleanRepliedToTweet with the object spread a careless rewrite would
\* use: every field of the raw record is carried over.
createCleanRepliedToTweet_Spread(tweet) == tweet

\* createCleanRepliedToTweet: the object literal lists the display fields
\* only (of which the model keeps id and createdAt).
createCleanRepliedToTweet(tweet) ==
    [id |-> tweet.id, createdAt |-> tweet.createdAt]

\* tweet.isReply !== undefined ? tweet.isReply : (!!replyId)
IsReplyOf(tweet, replyId) ==
    IF tweet.isReply # "undef" THEN tweet.isReply = "true" ELSE replyId # 0

\* processRawTweet: a record of the included or replied-to batch. Its
\* replyId chain ends with tweet.inReplyToId; the literal sets neither
\* repliedTo nor children. `source` is the _source tag its caller adds.
\* likeCount stands for the four counts the literal fills the same way
\* (retweetCount, replyCount and quoteCount have the same three-candidate
\* chain ending in 0); viewCount's chain ends with its third candidate.
processRawTweet(tweet, source) ==
    LET replyId == Or(tweet.in_reply_to_status_id, tweet.inReplyToId) IN
    [id |-> tweet.id, createdAt |-> tweet.createdAt,
     inReplyToStatusId |-> tweet.in_reply_to_status_id,
     referencedTweets |-> tweet.referenced_tweets,
     isReply |-> IsReplyOf(tweet, replyId),
     inReplyToId |-> Or(tweet.inReplyToId, replyId),
     conversationId |-> tweet.conversationId,
     repliedTo |-> <<>>, children |-> <<>>,
     likeCount |-> OrNum(tweet.likeCount,
                         OrNum(tweet.like_count,
                               OrNum(tweet.metrics_like_count, <<0>>))),
     viewCount |-> OrNum(tweet.viewCount,
                         OrNum(tweet.view_count, tweet.impression_count)),
     source |-> source]

----------------------------------------------------------------------------
(* twitterService: fetchUserTweets, from the parsed response on.           *)

\* tweetMap filled from the primary batch first: a primary record hides the
\* supplementary ones of its id.
TweetMapGet_PrimaryFirst(main, incl, repl, id) ==
    LET supp == SelectSeq(incl \o repl, LAMBDA t : t.id # 0 /\ t.id = id)
        prim == SelectSeq(main, LAMBDA t : t.id # 0 /\ t.id = id)
    IN  IF id = 0 THEN <<>>
        ELSE IF Len(prim) > 0 THEN <<prim[1]>>
        ELSE IF Len(supp) > 0 THEN <<supp[Len(supp)]>>
        ELSE <<>>

\* tweetMap: every included and replied-to record by id (a later one
\* replaces an earlier one), then every primary record whose id is not in
\* the map yet. The result is tweetMap.get(id) as an optional.
TweetMapGet(main, incl, repl, id) ==
    LET supp == SelectSeq(incl \o repl, LAMBDA t : t.id # 0 /\ t.id = id)
        prim == SelectSeq(main, LAMBDA t : t.id # 0 /\ t.id = id)
    IN  IF id = 0 THEN <<>>
        ELSE IF Len(supp) > 0 THEN <<supp[Len(supp)]>>
        ELSE IF Len(prim) > 0 THEN <<prim[1]>>
        ELSE <<>>

\* The test of a references entry looking at ref.reference_type only, a
\* field no entry of the model carries.
IsReplyRef_ReferenceTypeOnly(ref) == FALSE

\* ref.type === 'replied_to' || ref.type === 'repliedTo' || ...
IsReplyRef(ref) == ref.type \in {"replied_to", "repliedTo"}

\* The replied-to snapshot the else-if branch finds in the references list.
FromReferences(tweet, main, incl, repl) ==
    LET repliedToRef == First(SelectSeq(tweet.referenced_tweets, IsReplyRef)) IN
    IF Len(repliedToRef) = 0 THEN <<>>
    ELSE LET ref == repliedToRef[1] IN
         IF Len(ref.tweet) > 0 THEN <<createCleanRepliedToTweet(ref.tweet[1])>>
         ELSE LET found == TweetMapGet(main, incl, repl, ref.id) IN
              IF Len(found) > 0 THEN <<createCleanRepliedToTweet(found[1])>>
              ELSE <<>>

\* The callback of rawTweets.map: one primary record. The object spread
\* copies the raw record's own repliedTo and children.
ProcessMainTweet(tweet, main, incl, repl) ==
    LET replyId == tweet.in_reply_to_status_id
        hasReferencedTweets == Len(tweet.referenced_tweets) > 0
        hasRepliedTo == OrOpt(tweet.replied_to, tweet.repliedTo)
        \* if (hasRepliedTo) ... else if (hasReferencedTweets) ...
        first ==
            IF Len(hasRepliedTo) > 0
            THEN <<createCleanRepliedToTweet(hasRepliedTo[1])>>
            ELSE IF hasReferencedTweets
                 THEN FromReferences(tweet, main, incl, repl)
                 ELSE <<>>
        \* if (replyId && !processedTweet.repliedTo) ...
        byId ==
            IF replyId # 0 /\ Len(first) = 0
            THEN LET found == TweetMapGet(main, incl, repl, replyId)
                     inMain == First(SelectSeq(main, LAMBDA t : t.id = replyId))
                 IN  IF Len(found) > 0
                     THEN <<createCleanRepliedToTweet(found[1])>>
                     ELSE IF Len(inMain) > 0
                          THEN <<createCleanRepliedToTweet(inMain[1])>>
                          ELSE <<>>
            ELSE first
    IN  [id |-> tweet.id, createdAt |-> tweet.createdAt,
         inReplyToStatusId |-> tweet.in_reply_to_status_id,
         referencedTweets |-> tweet.referenced_tweets,
         isReply |-> IsReplyOf(tweet, replyId),
         inReplyToId |-> Or(tweet.inReplyToId, replyId),
         conversationId |-> tweet.conversationId,
         repliedTo |-> byId, children |-> tweet.children,
         \* ...tweet carries likeCount over as it is
         likeCount |-> tweet.likeCount,
         \* tweet.viewCount || tweet.view_count || undefined
         viewCount |-> OrNum(tweet.viewCount, OrNum(tweet.view_count, <<>>)),
         source |-> "main"]

\* The predicate of processedMainTweets.find: does primary record t
\* reference the supplementary record with this id? The included batch
\* also looks into referencedTweets, the replied-to batch does not.
References(t, id, source) ==
    \/ t.inReplyToId = id
    \/ t.inReplyToStatusId = id
    \/ /\ source = "includes"
       /\ \E k \in 1..Len(t.referencedTweets) : t.referencedTweets[k].id = id

\* The filter/map chain over one supplementary batch, from element i on.
\* `mainList` is processedMainTweets, which the callback mutates: a
\* referencing record without conversationId gets its own id as one.
\* Returns the mutated processedMainTweets and the processed batch.
RECURSIVE ProcessSupplementary(_, _, _, _, _, _)
ProcessSupplementary(batch, i, source, mainTweetIds, mainList, out) ==
    IF i > Len(batch) THEN [main |-> mainList, out |-> out]
    ELSE
      LET tweet == batch[i]
          isValid == tweet.id # 0 /\ tweet.id \notin mainTweetIds
          processed == processRawTweet(tweet, source)
          k == FirstIndex([j \in 1..Len(mainList) |->
                             References(mainList[j], tweet.id, source)])
      IN
      IF ~isValid
      THEN ProcessSupplementary(batch, i + 1, source, mainTweetIds, mainList, out)
      ELSE IF k = 0
      THEN ProcessSupplementary(batch, i + 1, source, mainTweetIds, mainList,
                                Append(out, processed))
      ELSE IF mainList[k].conversationId # 0
      THEN ProcessSupplementary(batch, i + 1, source, mainTweetIds, mainList,
               Append(out, [processed EXCEPT
                              !.conversationId = mainList[k].conversationId]))
      ELSE IF mainList[k].id # 0
      THEN ProcessSupplementary(batch, i + 1, source, mainTweetIds,
               [mainList EXCEPT ![k].conversationId = mainList[k].id],
               Append(out, [processed EXCEPT
                              !.conversationId = mainList[k].id]))
      ELSE ProcessSupplementary(batch, i + 1, source, mainTweetIds, mainList,
                                Append(out, processed))

\* The supplementary filter with the test against mainTweetIds left out.
MainTweetIds_Empty(processedMainTweets) == {}

\* new Set(processedMainTweets.map(t => t.id))
MainTweetIds(processedMainTweets) ==
    {processedMainTweets[i].id : i \in 1..Len(processedMainTweets)}

\* result.tweets of fetchUserTweets for the three batches of one response:
\* [...processedMainTweets, ...processedIncludesTweets,
\*  ...processedRepliedToTweets]
FetchUserTweets(main, incl, repl) ==
    LET processedMainTweets ==
            [i \in 1..Len(main) |-> ProcessMainTweet(main[i], main, incl, repl)]
        mainTweetIds == MainTweetIds(processedMainTweets)
        afterIncl == ProcessSupplementary(incl, 1, "includes", mainTweetIds,
                                          processedMainTweets, <<>>)
        afterRepl == ProcessSupplementary(repl, 1, "replied_to", mainTweetIds,
                                          afterIncl.main, <<>>)
    IN  afterRepl.main \o afterIncl.out \o afterRepl.out

----------------------------------------------------------------------------
(* twitterService: advancedSearch, from the parsed response on.            *)

\* The callback of rawTweets.map: one primary record. Its replyId chain
\* ends with tweet.inReplyToId; the spread carries the raw record's own
\* repliedTo and children over as they are; no _source is set.
ProcessSearchTweet(tweet) ==
    LET replyId == Or(tweet.in_reply_to_status_id, tweet.inReplyToId) IN
    [id |-> tweet.id, createdAt |-> tweet.createdAt,
     inReplyToStatusId |-> tweet.in_reply_to_status_id,
     referencedTweets |-> tweet.referenced_tweets,
     isReply |-> IsReplyOf(tweet, replyId),
     inReplyToId |-> Or(tweet.inReplyToId, replyId),
     conversationId |-> tweet.conversationId,
     repliedTo |-> tweet.repliedTo, children |-> tweet.children,
     likeCount |-> tweet.likeCount,
     viewCount |-> OrNum(tweet.viewCount, OrNum(tweet.view_count, <<>>)),
     source |-> "none"]

\* The predicate of processedMainTweets.find in advancedSearch, for the
\* included batch and for the replied-to batch.
SearchReferences(t, id, batch) ==
    IF batch = "includes"
    THEN \/ t.inReplyToId = id
         \/ \E k \in 1..Len(t.referencedTweets) : t.referencedTweets[k].id = id
    ELSE \/ t.inReplyToId = id
         \/ t.inReplyToStatusId = id

\* The filter/map chain over one supplementary batch: a record takes over
\* the conversationId of the first primary record that references it, if
\* that one has any; nothing is minted and no _source is set.
ProcessSearchSupplementary(batch, kind, processedMainTweets) ==
    LET mainTweetIds == MainTweetIds(processedMainTweets)
        valid == SelectSeq(batch,
                     LAMBDA t : t.id # 0 /\ t.id \notin mainTweetIds)
        one(tweet) ==
            LET processed == processRawTweet(tweet, "none")
                k == FirstIndex([j \in 1..Len(processedMainTweets) |->
                        SearchReferences(processedMainTweets[j], tweet.id, kind)])
            IN  IF k # 0 /\ processedMainTweets[k].conversationId # 0
                THEN [processed EXCEPT !.conversationId =
                                          processedMainTweets[k].conversationId]
                ELSE processed
    IN  [i \in 1..Len(valid) |-> one(valid[i])]

\* result.tweets of advancedSearch for the three batches of one response.
AdvancedSearch(main, incl, repl) ==
    LET processedMainTweets ==
            [i \in 1..Len(main) |-> ProcessSearchTweet(main[i])]
    IN  processedMainTweets
        \o ProcessSearchSupplementary(incl, "includes", processedMainTweets)
        \o ProcessSearchSupplementary(repl, "replied_to", processedMainTweets)

----------------------------------------------------------------------------
(* twitterService: organizeTweetsIntoThreads.                              *)

\* What { ...undefined, children: [] } yields: an object whose every other
\* field is undefined.
EmptyTweet ==
    [id |-> 0, createdAt |-> 0, inReplyToStatusId |-> 0,
     referencedTweets |-> <<>>, isReply |-> FALSE, inReplyToId |-> 0,
     conversationId |-> 0, repliedTo |-> <<>>, children |-> <<>>,
     source |-> "none"]

\* { ...tweetMap.get(id)!, children: [] }: tweetMap holds, for every truthy
\* id of the input, the last record with that id.
TweetMapCopy(list, id) ==
    LET same == SelectSeq(list, LAMBDA t : t.id # 0 /\ t.id = id) IN
    IF id # 0 /\ Len(same) > 0
    THEN [same[Len(same)] EXCEPT !.children = <<>>]
    ELSE EmptyTweet

\* The keys of conversationMap in insertion order: each truthy
\* conversationId at its first occurrence.
ConversationIds(list) ==
    LET first(i) == list[i].conversationId # 0
                    /\ \A j \in 1..(i - 1) :
                          list[j].conversationId # list[i].conversationId
        idx == SelectSeq([i \in 1..Len(list) |-> i], first)
    IN  [k \in 1..Len(idx) |-> list[idx[k]].conversationId]

\* The root filter of one conversation.
IsRootIn(tweet, conversationTweetIds) ==
    IF ~tweet.isReply \/ tweet.inReplyToId = 0 THEN TRUE
    ELSE tweet.inReplyToId \notin conversationTweetIds

\* The children filter of attachChildren.
IsChildOf(t, parentTweet) ==
    t.inReplyToId = parentTweet.id /\ t.id # parentTweet.id

\* attachChildren(parentTweet) and the children.map inside it, with the
\* processedIds set both share made explicit: each returns the set as it
\* leaves it. A child is copied and attached before the recursive call
\* looks at processedIds.
RECURSIVE AttachChildren(_, _, _, _)
RECURSIVE AttachEach(_, _, _, _, _, _)
AttachChildren(parentTweet, processedIds, conversationTweets, list) ==
    IF parentTweet.id \in processedIds
    THEN [node |-> parentTweet, processedIds |-> processedIds]
    ELSE LET children == SelectSeq(conversationTweets,
                                   LAMBDA t : IsChildOf(t, parentTweet))
             done == AttachEach(children, 1, processedIds \cup {parentTweet.id},
                                conversationTweets, list, <<>>)
         IN  IF Len(children) > 0
             THEN [node |-> [parentTweet EXCEPT !.children = done.nodes],
                   processedIds |-> done.processedIds]
             ELSE [node |-> parentTweet,
                   processedIds |-> processedIds \cup {parentTweet.id}]

AttachEach(children, i, processedIds, conversationTweets, list, out) ==
    IF i > Len(children) THEN [nodes |-> out, processedIds |-> processedIds]
    ELSE LET childCopy == TweetMapCopy(list, children[i].id)
             sub == AttachChildren(childCopy, processedIds,
                                   conversationTweets, list)
         IN  AttachEach(children, i + 1, sub.processedIds,
                        conversationTweets, list, Append(out, sub.node))

\* The forest of one conversation: its roots in input order, one
\* processedIds set for the whole conversation.
ConversationThreads(conversationTweets, list) ==
    LET ids == {conversationTweets[i].id : i \in 1..Len(conversationTweets)}
        roots == SelectSeq(conversationTweets, LAMBDA t : IsRootIn(t, ids))
        done == AttachEach(roots, 1, {}, conversationTweets, list, <<>>)
    IN  done.nodes

\* The orphanTweets.forEach callback: the roots (none or one) an input
\* record without conversationId contributes.
OrphanThreads(tweet, list) ==
    IF ~tweet.isReply \/ tweet.inReplyToId = 0
    THEN <<TweetMapCopy(list, tweet.id)>>
    ELSE LET parentTweet ==
                 First(SelectSeq(list, LAMBDA t : t.id = tweet.inReplyToId)) IN
         IF Len(parentTweet) > 0 /\ parentTweet[1].conversationId # 0
         THEN <<>>
         ELSE <<TweetMapCopy(list, tweet.id)>>

RECURSIVE Flatten(_)
Flatten(ss) == IF ss = <<>> THEN <<>> ELSE Head(ss) \o Flatten(Tail(ss))

\* organizeTweetsIntoThreads(list): rootTweets.
organizeTweetsIntoThreads(list) ==
    LET convs == ConversationIds(list)
        ofConv(c) == SelectSeq(list, LAMBDA t : t.conversationId = c)
        orphanTweets == SelectSeq(list, LAMBDA t : t.conversationId = 0)
    IN  Flatten([k \in 1..Len(convs) |->
                    ConversationThreads(ofConv(convs[k]), list)])
        \o Flatten([k \in 1..Len(orphanTweets) |->
                    OrphanThreads(orphanTweets[k], list)])

----------------------------------------------------------------------------
(* App: renderResults.                                                     *)

\* The comparator with its operands swapped: newest first.
CompareCreatedAt_Newest(a, b) == b.createdAt - a.createdAt

\* (a, b) => new Date(a.createdAt).getTime() - new Date(b.createdAt).getTime()
CompareCreatedAt(a, b) == a.createdAt - b.createdAt

\* Array.prototype.sort, given the comparator's value cmp[j][i] for every
\* pair of elements: stable (ECMAScript 2019), so element j precedes
\* element i exactly when it compares smaller, or equal and j < i.
Sort(s, cmp) ==
    LET n == Len(s)
        before(j, i) == cmp[j][i] < 0 \/ (cmp[j][i] = 0 /\ j < i)
        rank(i) == Cardinality({j \in 1..n : before(j, i)}) + 1
    IN  [r \in 1..n |-> s[CHOOSE i \in 1..n : rank(i) = r]]

\* list.sort((a, b) => new Date(a.createdAt).getTime() - ...)
SortByCreatedAt(list) ==
    Sort(list, [j \in 1..Len(list) |-> [i \in 1..Len(list) |->
                   CompareCreatedAt(list[j], list[i])]])

\* The reduce of the conversation comparator: the first member with the
\* smallest createdAt.
RECURSIVE Oldest(_, _)
Oldest(oldest, rest) ==
    IF rest = <<>> THEN oldest
    ELSE Oldest(IF Head(rest).createdAt < oldest.createdAt
                THEN Head(rest) ELSE oldest, Tail(rest))

\* conversationGroups: the entries [conversationId, tweets] of the Map in
\* insertion order.
ConversationGroups(list) ==
    LET convs == ConversationIds(list) IN
    [k \in 1..Len(convs) |->
        [conversationId |-> convs[k],
         tweets |-> SelectSeq(list, LAMBDA t : t.conversationId = convs[k])]]

CompareConversations(a, b) ==
    CompareCreatedAt(Oldest(Head(a.tweets), Tail(a.tweets)),
                     Oldest(Head(b.tweets), Tail(b.tweets)))

\* Array.from(conversationGroups.entries()).sort(...)
SortConversations(groups) ==
    Sort(groups, [j \in 1..Len(groups) |-> [i \in 1..Len(groups) |->
                     CompareConversations(groups[j], groups[i])]])

\* One conversation block: its tweets sorted, organised, its threads sorted.
ConversationBlock(group) ==
    LET sortedConversationTweets == SortByCreatedAt(group.tweets)
        organizedThreads == organizeTweetsIntoThreads(sortedConversationTweets)
    IN  [kind |-> "conversation", conversationId |-> group.conversationId,
         tweets |-> group.tweets,
         threads |-> SortByCreatedAt(organizedThreads)]

\* The standalone block, rendered only when there is a standalone tweet.
StandaloneBlocks(standaloneTweets) ==
    LET sortedStandaloneTweets == SortByCreatedAt(standaloneTweets) IN
    IF Len(sortedStandaloneTweets) > 0
    THEN <<[kind |-> "standalone", conversationId |-> 0,
            tweets |-> sortedStandaloneTweets,
            threads |-> SortByCreatedAt(
                            organizeTweetsIntoThreads(sortedStandaloneTweets))]>>
    ELSE <<>>

\* The blocks renderResults lays out for a non-empty tweet array, in
\* document order: the conversation blocks, then the standalone block.
RenderTweets(list) ==
    LET sortedConversations == SortConversations(ConversationGroups(list))
        standaloneTweets == SelectSeq(list, LAMBDA t : t.conversationId = 0)
    IN  [k \in 1..Len(sortedConversations) |->
            ConversationBlock(sortedConversations[k])]
        \o StandaloneBlocks(standaloneTweets)

\* renderResults once loading has ended without error: nothing for null,
\* the "No Results" notice for an empty array, the JSON dump when the first
\* element has no string id, the thread view otherwise.
RenderResultsView(data) ==
    IF data = <<>> THEN [view |-> "empty", blocks |-> <<>>]
    ELSE IF data[1].id = 0 THEN [view |-> "json", blocks |-> <<>>]
    ELSE [view |-> "threads", blocks |-> RenderTweets(data)]

----------------------------------------------------------------------------
(* The inputs.                                                             *)

\* The ways a primary record names its reply target k.
ReplyShapes(r, k) ==
    {[r EXCEPT !.in_reply_to_status_id = k],
     [r EXCEPT !.inReplyToId = k],
     [r EXCEPT !.replied_to = <<NestedRaw(k)>>],
     [r EXCEPT !.referenced_tweets =
                   <<[type |-> "replied_to", id |-> k, tweet |-> <<>>]>>],
     [r EXCEPT !.referenced_tweets =
                   <<[type |-> "replied_to", id |-> k,
                      tweet |-> <<NestedRaw(k)>>]>>]}

\* Primary records of a response: every id, alone or replying in any shape.
PrimaryRaws ==
    UNION {{RawTweet(i, 1, 0)} \cup UNION {ReplyShapes(RawTweet(i, 1, 0), k) : k \in Ids}
           : i \in Ids}

\* Included and replied-to records: plain, or carrying nested reply data.
SupplementaryRaws ==
    UNION {{RawTweet(i, 1, 0), NestedRaw(i)} : i \in Ids}

\* Primary records as a timeline page holds them: id, date, conversation
\* and the reply target the API names in in_reply_to_status_id.
TimelineRaws ==
    {[RawTweet(i, t, c) EXCEPT !.in_reply_to_status_id = k] :
        i \in Ids, t \in Times, c \in 0..MaxConv, k \in 0..MaxId}

\* The references lists of a record under resolution: none, a reply entry
\* naming id 2 without and with its record inline, and a reply entry behind
\* an entry of another type.
ReferenceLists ==
    {<<>>,
     <<[type |-> "replied_to", id |-> 2, tweet |-> <<>>]>>,
     <<[type |-> "replied_to", id |-> 2, tweet |-> <<RawTweet(2, 2, 0)>>]>>,
     <<[type |-> "quoted", id |-> 1, tweet |-> <<>>],
       [type |-> "replied_to", id |-> 2, tweet |-> <<>>]>>}

\* Primary records that name a reply target in up to three ways at once:
\* an inline record, a references list, in_reply_to_status_id.
ResolveRaws ==
    {[RawTweet(i, 1, 0) EXCEPT !.replied_to = e, !.referenced_tweets = refs,
                               !.in_reply_to_status_id = k] :
        i \in Ids, e \in {<<>>, <<RawTweet(1, 3, 0)>>},
        refs \in ReferenceLists, k \in 0..MaxTarget}

\* Included and replied-to records a reply target is looked up in; their
\* createdAt tells them from a primary record of the same id.
LookupRaws == {RawTweet(k, t, 0) : k \in 1..MaxTarget, t \in 2..MaxTime}

\* Records of any batch whose id may be missing (0), alone or naming a
\* reply target.
MalformedRaws ==
    {[RawTweet(i, 1, 0) EXCEPT !.in_reply_to_status_id = k] :
        i \in 0..MaxId, k \in 0..MaxId}

----------------------------------------------------------------------------
(* The pipeline: one response is fetched, then rendered.                   *)

\* The three locations of a response a batch is read from.
Locations == {"tweets", "includes", "replied_to"}

\* A response whose three batches are arrays.
AllArrays == [loc \in Locations |-> "array"]

\* The batches as `x || []` leaves them: a falsy value has become the empty
\* array, a truthy value that is no array is still there. Such a value has
\* no forEach and no filter (a string), or cannot be spread at all (an
\* object, a number, true): a TypeError ends fetchUserTweets, and its catch
\* block throws it on.
FetchUserTweetsThrows(kinds) == \E loc \in Locations : kinds[loc] = "other"

\* The same in advancedSearch: rawTweets.map and the two filters need
\* arrays.
AdvancedSearchThrows(kinds) == \E loc \in Locations : kinds[loc] = "other"

\* What responseData holds once handleFetch has run to its end with this
\* result: setResponseData(null), then setResponseData(result.tweets).
ResponseDataAfterFetch_Append(prev, result) == prev \o result

ResponseDataAfterFetch(prev, result) == result

\* No organizeTweetsIntoThreads call is under way.
NotOrganizing ==
    /\ heap = <<>>
    /\ stack = <<>>
    /\ processedIdSet = {}
    /\ rootTweets = <<>>
    /\ cursor = [conversation |-> 0, root |-> 0]

\* The useState initial values of the loading state.
NotLoading ==
    /\ isLoading = FALSE
    /\ nextCursor = 0
    /\ hasNextPage = FALSE
    /\ activeTab = "user"
    /\ pending = <<>>

Idle ==
    /\ phase = "idle"
    /\ responseData = <<>>
    /\ error = ""
    /\ rendered = [view |-> "none", blocks |-> <<>>]
    /\ tweets = <<>>
    /\ forest = <<>>
    /\ NotOrganizing
    /\ NotLoading

Init ==
    /\ Idle
    /\ batchKind = AllArrays
    /\ \E n \in 0..MaxMain : rawTweets \in SeqsOf(PrimaryRaws, n)
    /\ \E n \in 0..MaxSupp : includesTweets \in SeqsOf(SupplementaryRaws, n)
    /\ \E n \in 0..MaxSupp : repliedToTweets \in SeqsOf(SupplementaryRaws, n)

\* handleFetch from the phase `from` on, once the request has settled with
\* a parsed response: the result replaces responseData, or the catch block
\* records the error and responseData stays null.
Fetch(from, to) ==
    /\ phase = from
    /\ IF FetchUserTweetsThrows(batchKind)
       THEN /\ error' = "TypeError"
            /\ responseData' = <<>>
       ELSE /\ error' = ""
            /\ responseData' =
                   ResponseDataAfterFetch(responseData,
                       FetchUserTweets(rawTweets, includesTweets, repliedToTweets))
    /\ phase' = to
    /\ UNCHANGED <<batchKind, rawTweets, includesTweets, repliedToTweets,
                   rendered, tweets, forest>>
    /\ UNCHANGED <<organizeVars, loadVars>>

\* The render that follows setResponseData and setIsLoading(false): the
\* error notice when an error was recorded, the results otherwise.
Render(from, to) ==
    /\ phase = from
    /\ rendered' = IF error # "" THEN [view |-> "error", blocks |-> <<>>]
                   ELSE RenderResultsView(responseData)
    /\ phase' = to
    /\ UNCHANGED <<batchKind, rawTweets, includesTweets, repliedToTweets,
                   responseData, error, tweets, forest>>
    /\ UNCHANGED <<organizeVars, loadVars>>

HandleFetch == Fetch("idle", "loaded")

\* handleAdvancedSearch, once the request has settled with a parsed
\* response.
HandleAdvancedSearch ==
    /\ phase = "idle"
    /\ IF AdvancedSearchThrows(batchKind)
       THEN /\ error' = "TypeError"
            /\ responseData' = <<>>
       ELSE /\ error' = ""
            /\ responseData' =
                   AdvancedSearch(rawTweets, includesTweets, repliedToTweets)
    /\ phase' = "loaded"
    /\ UNCHANGED <<batchKind, rawTweets, includesTweets, repliedToTweets,
                   rendered, tweets, forest>>
    /\ UNCHANGED <<organizeVars, loadVars>>

RenderResults == Render("loaded", "rendered")

Next == HandleFetch \/ RenderResults

Spec == Init /\ [][Next]_vars

\* handleFetch and the render after it once more, on the rendered page and
\* for the same response.
HandleFetchAgain == Fetch("rendered", "reloaded")

RenderResultsAgain == Render("reloaded", "rerendered")

NextRerun ==
    HandleFetch \/ RenderResults \/ HandleFetchAgain \/ RenderResultsAgain

SpecRerun == Init /\ [][NextRerun]_vars

\* Either tab of the App: the user timeline or the advanced search.
NextSearch == HandleFetch \/ HandleAdvancedSearch \/ RenderResults

SpecSearch == Init /\ [][NextSearch]_vars

\* Either tab on responses with records that have no id and with batches
\* that are no arrays.
InitMalformed ==
    /\ Idle
    /\ batchKind \in [Locations -> {"array", "null", "other"}]
    /\ \E n \in 0..MaxMain : rawTweets \in SeqsOf(MalformedRaws, n)
    /\ \E n \in 0..MaxSupp : includesTweets \in SeqsOf(MalformedRaws, n)
    /\ \E n \in 0..MaxSupp : repliedToTweets \in SeqsOf(MalformedRaws, n)
    /\ batchKind["tweets"] # "array" => rawTweets = <<>>
    /\ batchKind["includes"] # "array" => includesTweets = <<>>
    /\ batchKind["replied_to"] # "array" => repliedToTweets = <<>>

SpecMalformed == InitMalformed /\ [][NextSearch]_vars

\* The same pipeline on timeline pages without supplementary batches.
\* Optional counts as a raw record supplies them.
Counts == {<<>>} \cup {<<n>> : n \in 0..MaxCount}

\* The record of this id with every combination of the count fields.
CountRaws(id) ==
    {[RawTweet(id, 1, 0) EXCEPT
         !.viewCount = v, !.view_count = vs, !.impression_count = im,
         !.likeCount = l, !.like_count = ls, !.metrics_like_count = lm]
     : v \in Counts, vs \in Counts, im \in Counts,
       l \in Counts, ls \in Counts, lm \in Counts}

\* One primary record, or one included record, with any counts.
InitCounts ==
    /\ Idle
    /\ batchKind = AllArrays
    /\ repliedToTweets = <<>>
    /\ \/ /\ \E raw \in CountRaws(1) : rawTweets = <<raw>>
          /\ includesTweets = <<>>
       \/ /\ rawTweets = <<>>
          /\ \E raw \in CountRaws(2) : includesTweets = <<raw>>

SpecCounts == InitCounts /\ [][NextSearch]_vars

InitRender ==
    /\ Idle
    /\ batchKind = AllArrays
    /\ \E n \in 0..MaxPage : rawTweets \in SeqsOf(TimelineRaws, n)
    /\ includesTweets = <<>>
    /\ repliedToTweets = <<>>

SpecRender == InitRender /\ [][Next]_vars

\* The same pipeline on responses whose primary records are to be resolved.
InitResolve ==
    /\ Idle
    /\ batchKind = AllArrays
    /\ \E n \in 0..MaxMain : rawTweets \in SeqsOf(ResolveRaws, n)
    /\ \E n \in 0..MaxSupp : includesTweets \in SeqsOf(LookupRaws, n)
    /\ \E n \in 0..MaxSupp : repliedToTweets \in SeqsOf(LookupRaws, n)

SpecResolve == InitResolve /\ [][Next]_vars

\* The same pipeline on a page whose tweets all belong to one conversation.
InitConversation ==
    /\ Idle
    /\ batchKind = AllArrays
    /\ \E n \in 0..MaxThread :
          rawTweets \in SeqsOf({r \in TimelineRaws : r.conversationId = 1}, n)
    /\ includesTweets = <<>>
    /\ repliedToTweets = <<>>

SpecConversation == InitConversation /\ [][Next]_vars

----------------------------------------------------------------------------
(* A direct call of the exported organizeTweetsIntoThreads.                *)

\* Tweet objects: any id, conversation, isReply flag and reply target.
Tweets ==
    {[EmptyTweet EXCEPT !.id = i, !.createdAt = 1, !.conversationId = c,
                        !.isReply = r, !.inReplyToId = k, !.source = "main"] :
        i \in Ids, c \in 0..1, r \in BOOLEAN, k \in 0..MaxId}

InitThreads ==
    /\ phase = "idle"
    /\ batchKind = AllArrays
    /\ error = ""
    /\ rawTweets = <<>>
    /\ includesTweets = <<>>
    /\ repliedToTweets = <<>>
    /\ responseData = <<>>
    /\ rendered = [view |-> "none", blocks |-> <<>>]
    /\ \E n \in 0..MaxTweets : tweets \in SeqsOf(Tweets, n)
    /\ forest = <<>>
    /\ NotOrganizing
    /\ NotLoading

OrganizeThreads ==
    /\ phase = "idle"
    /\ forest' = organizeTweetsIntoThreads(tweets)
    /\ phase' = "organized"
    /\ UNCHANGED <<batchKind, rawTweets, includesTweets, repliedToTweets,
                   responseData, error, rendered, tweets>>
    /\ UNCHANGED <<organizeVars, loadVars>>

NextThreads == OrganizeThreads

SpecThreads == InitThreads /\ [][NextThreads]_vars

----------------------------------------------------------------------------
(* organizeTweetsIntoThreads, one call and one loop iteration at a time.   *)
(* Objects live in `heap`; a reference is an index into it. The objects of *)
(* the input array are heap[1..Len(tweets)].                               *)

\* Input records, also without id (0), replying to themselves or to each
\* other.
StepTweets ==
    {[EmptyTweet EXCEPT !.id = i, !.createdAt = 1, !.conversationId = c,
                        !.isReply = r, !.inReplyToId = k, !.source = "main"] :
        i \in 0..MaxNode, c \in 0..1, r \in BOOLEAN, k \in 0..MaxNode}

InitOrganize ==
    /\ phase = "idle"
    /\ batchKind = AllArrays
    /\ error = ""
    /\ rawTweets = <<>>
    /\ includesTweets = <<>>
    /\ repliedToTweets = <<>>
    /\ responseData = <<>>
    /\ rendered = [view |-> "none", blocks |-> <<>>]
    /\ \E n \in 0..MaxTweets : tweets \in SeqsOf(StepTweets, n)
    /\ forest = <<>>
    /\ NotOrganizing
    /\ NotLoading

\* The references of the input array, in order.
InputRefs == [i \in 1..Len(tweets) |-> i]

\* The input objects as they are now.
InputObjects == [i \in 1..Len(tweets) |-> heap[i]]

\* conversationMap.get(conversationId): references of the input objects
\* with that conversationId, in input order.
ConversationRefs(conversationId) ==
    SelectSeq(InputRefs, LAMBDA r : heap[r].conversationId = conversationId)

\* The conversation conversationMap.forEach is at.
CurrentConversation ==
    ConversationRefs(ConversationIds(InputObjects)[cursor.conversation])

\* rootTweetsInConversation of the current conversation.
CurrentRoots ==
    LET ids == {heap[CurrentConversation[k]].id
                    : k \in 1..Len(CurrentConversation)}
    IN  SelectSeq(CurrentConversation, LAMBDA r : IsRootIn(heap[r], ids))

\* attachChildren without its guard: no id ever counts as processed.
AlreadyProcessed_Never(id, seen) == FALSE

\* if (processedIds.has(parentTweet.id)) return;
AlreadyProcessed(id, seen) == id \in seen

\* The root handed to attachChildren being the input record itself
\* instead of a copy of it.
rootCopy_InPlace(rootTweet, fresh) == rootTweet

\* const rootCopy = { ...tweetMap.get(rootTweet.id)!, children: [] }: the
\* reference of the new object, not the one of rootTweet.
rootCopy(rootTweet, fresh) == fresh

\* The frame of an attachChildren call past its guard: its parentTweet, the
\* children it filtered, the index children.map is at and the copies the
\* map has returned so far.
Frame(parentTweet) ==
    [parentTweet |-> parentTweet,
     children |-> SelectSeq(CurrentConversation,
                            LAMBDA r : IsChildOf(heap[r], heap'[parentTweet])),
     i |-> 1,
     out |-> <<>>]

\* The top of organizeTweetsIntoThreads: tweetMap and conversationMap are
\* filled from the input, rootTweets is empty.
BeginOrganize ==
    /\ phase = "idle"
    /\ phase' = "organizing"
    /\ heap' = tweets
    /\ stack' = <<>>
    /\ processedIdSet' = {}
    /\ rootTweets' = <<>>
    /\ cursor' = [conversation |-> 1, root |-> 1]
    /\ UNCHANGED <<batchKind, rawTweets, includesTweets, repliedToTweets,
                   responseData, error, rendered, tweets, forest, loadVars>>

Organizing ==
    /\ phase = "organizing"
    /\ cursor.conversation <= Len(ConversationIds(InputObjects))

\* One callback of rootTweetsInConversation.forEach up to the point where
\* attachChildren(rootCopy) returns at once or has filtered its children.
EnterRoot ==
    /\ Organizing
    /\ stack = <<>>
    /\ cursor.root <= Len(CurrentRoots)
    /\ LET rootTweet == CurrentRoots[cursor.root]
           node == rootCopy(rootTweet, Len(heap) + 1)
       IN  /\ heap' = Append(heap, TweetMapCopy(tweets, heap[rootTweet].id))
           /\ IF AlreadyProcessed(heap'[node].id, processedIdSet)
              THEN /\ rootTweets' = Append(rootTweets, node)
                   /\ cursor' = [cursor EXCEPT !.root = @ + 1]
                   /\ UNCHANGED <<stack, processedIdSet>>
              ELSE /\ processedIdSet' = processedIdSet \cup {heap'[node].id}
                   /\ stack' = <<Frame(node)>>
                   /\ UNCHANGED <<rootTweets, cursor>>
    /\ UNCHANGED <<phase, batchKind, rawTweets, includesTweets,
                   repliedToTweets, responseData, error, rendered, tweets,
                   forest, loadVars>>

\* One callback of children.map up to the point where
\* attachChildren(childCopy) returns at once or has filtered its children.
AttachChild ==
    /\ Organizing
    /\ stack # <<>>
    /\ LET top == stack[Len(stack)]
           childCopy == Len(heap) + 1
       IN  /\ top.i <= Len(top.children)
           /\ heap' = Append(heap,
                         TweetMapCopy(tweets, heap[top.children[top.i]].id))
           /\ IF AlreadyProcessed(heap'[childCopy].id, processedIdSet)
              THEN /\ stack' = [stack EXCEPT ![Len(stack)] =
                                   [top EXCEPT !.i = @ + 1,
                                               !.out = Append(@, childCopy)]]
                   /\ UNCHANGED processedIdSet
              ELSE /\ Len(stack) < MaxDepth
                   /\ processedIdSet' =
                          processedIdSet \cup {heap'[childCopy].id}
                   /\ stack' = Append(stack, Frame(childCopy))
    /\ UNCHANGED <<phase, batchKind, rawTweets, includesTweets,
                   repliedToTweets, responseData, error, rendered, tweets,
                   forest, rootTweets, cursor, loadVars>>

\* children.map is through: parentTweet.children is assigned when there
\* were children, attachChildren returns, and its caller goes on: the map
\* of the parent call returns the copy, or the root is pushed to
\* rootTweets.
ReturnAttach ==
    /\ Organizing
    /\ stack # <<>>
    /\ LET top == stack[Len(stack)]
           below == Len(stack) - 1
       IN  /\ top.i > Len(top.children)
           /\ heap' = IF Len(top.children) > 0
                      THEN [heap EXCEPT ![top.parentTweet].children = top.out]
                      ELSE heap
           /\ IF below = 0
              THEN /\ stack' = <<>>
                   /\ rootTweets' = Append(rootTweets, top.parentTweet)
                   /\ cursor' = [cursor EXCEPT !.root = @ + 1]
              ELSE /\ stack' =
                          [SubSeq(stack, 1, below) EXCEPT ![below] =
                              [@ EXCEPT !.i = @ + 1,
                                        !.out = Append(@, top.parentTweet)]]
                   /\ UNCHANGED <<rootTweets, cursor>>
    /\ UNCHANGED <<phase, batchKind, rawTweets, includesTweets,
                   repliedToTweets, responseData, error, rendered, tweets,
                   forest, processedIdSet, loadVars>>

\* The roots of one conversation are through: conversationMap.forEach
\* goes to the next one, with a new processedIds.
NextConversation ==
    /\ Organizing
    /\ stack = <<>>
    /\ cursor.root > Len(CurrentRoots)
    /\ cursor' = [conversation |-> cursor.conversation + 1, root |-> 1]
    /\ processedIdSet' = {}
    /\ UNCHANGED <<phase, batchKind, rawTweets, includesTweets,
                   repliedToTweets, responseData, error, rendered, tweets,
                   forest, heap, stack, rootTweets, loadVars>>

\* The object a reference stands for, with its children in place of their
\* references.
RECURSIVE Deref(_, _)
Deref(h, ref) ==
    [h[ref] EXCEPT !.children =
        [k \in 1..Len(h[ref].children) |-> Deref(h, h[ref].children[k])]]

\* orphanTweets.forEach, which calls nothing, and the return statement.
FinishOrganize ==
    /\ phase = "organizing"
    /\ cursor.conversation > Len(ConversationIds(InputObjects))
    /\ LET orphanTweets ==
               SelectSeq(InputObjects, LAMBDA t : t.conversationId = 0)
           copies == Flatten([k \in 1..Len(orphanTweets) |->
                                 OrphanThreads(orphanTweets[k], InputObjects)])
       IN  /\ heap' = heap \o copies
           /\ rootTweets' = rootTweets
                               \o [k \in 1..Len(copies) |-> Len(heap) + k]
    /\ forest' = [k \in 1..Len(rootTweets') |-> Deref(heap', rootTweets'[k])]
    /\ phase' = "organized"
    /\ UNCHANGED <<batchKind, rawTweets, includesTweets, repliedToTweets,
                   responseData, error, rendered, tweets, stack,
                   processedIdSet, cursor, loadVars>>

NextOrganize ==
    \/ BeginOrganize
    \/ EnterRoot
    \/ AttachChild
    \/ ReturnAttach
    \/ NextConversation
    \/ FinishOrganize

\* The call runs on its own thread of control: an enabled step is taken.
SpecOrganize == InitOrganize /\ [][NextOrganize]_vars /\ WF_vars(NextOrganize)

----------------------------------------------------------------------------
(* App: the three request handlers as the event loop runs them. A handler  *)
(* runs up to its await in one step and is resumed, in one step again,     *)
(* when its request settles.                                               *)

InitLoading ==
    /\ Idle
    /\ batchKind = AllArrays
    /\ rawTweets = <<>>
    /\ includesTweets = <<>>
    /\ repliedToTweets = <<>>

\* What a settled request can resolve to: a page of no or one record, and
\* for the search the pagination fields (has_next_page || false,
\* next_cursor || '').
FetchResults ==
    {[tweets |-> page, hasNextPage |-> FALSE, nextCursor |-> 0] :
        page \in {<<>>} \cup {FetchUserTweets(<<RawTweet(i, 1, 0)>>, <<>>, <<>>)
                                  : i \in 1..MaxCursor}}

SearchResults ==
    {[tweets |-> page, hasNextPage |-> more, nextCursor |-> c] :
        page \in {<<>>} \cup {AdvancedSearch(<<RawTweet(i, 1, 0)>>, <<>>, <<>>)
                                  : i \in 1..MaxCursor},
        more \in BOOLEAN, c \in 0..MaxCursor}

\* handleLoadMore with its first line removed.
LoadMoreReturns_Never(cursorNow, loading) == FALSE

\* if (!nextCursor || isLoading) return;
LoadMoreReturns(cursorNow, loading) == cursorNow = 0 \/ loading

\* setActiveTab: a click on the other tab, possible at any time.
SwitchTab ==
    /\ activeTab' = IF activeTab = "user" THEN "advancedSearch" ELSE "user"
    /\ UNCHANGED <<phase, batchKind, rawTweets, includesTweets,
                   repliedToTweets, responseData, error, rendered, tweets,
                   forest, organizeVars, isLoading, nextCursor, hasNextPage,
                   pending>>

\* The setters handleFetch and handleAdvancedSearch call before their
\* try block.
ResetForRequest(handler) ==
    /\ error' = ""
    /\ responseData' = <<>>
    /\ isLoading' = TRUE
    /\ hasNextPage' = FALSE
    /\ nextCursor' = 0
    /\ pending' = Append(pending, handler)
    /\ UNCHANGED <<phase, batchKind, rawTweets, includesTweets,
                   repliedToTweets, rendered, tweets, forest, organizeVars,
                   activeTab>>

\* A click on the Fetch button, which is disabled while isLoading:
\* handleFetch up to its await.
StartFetch ==
    /\ activeTab = "user"
    /\ ~isLoading
    /\ Len(pending) < MaxPending
    /\ ResetForRequest("handleFetch")

\* A click on the Search button, which is disabled while isLoading:
\* handleAdvancedSearch up to its await.
StartAdvancedSearch ==
    /\ activeTab = "advancedSearch"
    /\ ~isLoading
    /\ Len(pending) < MaxPending
    /\ ResetForRequest("handleAdvancedSearch")

\* A click on the Load More button, which is there when hasNextPage on the
\* search tab and disabled while isLoading: handleLoadMore up to its
\* await, when its first line does not return.
StartLoadMore ==
    /\ hasNextPage
    /\ activeTab = "advancedSearch"
    /\ ~isLoading
    /\ ~LoadMoreReturns(nextCursor, isLoading)
    /\ Len(responseData) < MaxLoaded
    /\ Len(pending) < MaxPending
    /\ isLoading' = TRUE
    /\ error' = ""
    /\ pending' = Append(pending, "handleLoadMore")
    /\ UNCHANGED <<phase, batchKind, rawTweets, includesTweets,
                   repliedToTweets, responseData, rendered, tweets, forest,
                   organizeVars, nextCursor, hasNextPage, activeTab>>

\* The sequence without its k-th element.
Without(seq, k) == SubSeq(seq, 1, k - 1) \o SubSeq(seq, k + 1, Len(seq))

\* The k-th awaited request resolves: the rest of the try block of its
\* handler, then finally.
Resolve(k, result) ==
    /\ responseData' = IF pending[k] = "handleLoadMore"
                       THEN responseData \o result.tweets
                       ELSE result.tweets
    /\ IF pending[k] = "handleFetch"
       THEN UNCHANGED <<hasNextPage, nextCursor>>
       ELSE /\ hasNextPage' = result.hasNextPage
            /\ nextCursor' = result.nextCursor
    /\ isLoading' = FALSE
    /\ pending' = Without(pending, k)
    /\ UNCHANGED <<phase, batchKind, rawTweets, includesTweets,
                   repliedToTweets, error, rendered, tweets, forest,
                   organizeVars, activeTab>>

\* The k-th awaited request rejects: the catch block of its handler, then
\* finally.
Reject(k) ==
    /\ error' = "Error"
    /\ isLoading' = FALSE
    /\ pending' = Without(pending, k)
    /\ UNCHANGED <<phase, batchKind, rawTweets, includesTweets,
                   repliedToTweets, responseData, rendered, tweets, forest,
                   organizeVars, nextCursor, hasNextPage, activeTab>>

Resolves ==
    \E k \in 1..Len(pending) :
        \E result \in IF pending[k] = "handleFetch" THEN FetchResults
                       ELSE SearchResults :
            Resolve(k, result)

Rejects == \E k \in 1..Len(pending) : Reject(k)

NextLoading ==
    \/ SwitchTab
    \/ StartFetch
    \/ StartAdvancedSearch
    \/ StartLoadMore
    \/ Resolves
    \/ Rejects

\* Every awaited request settles.
SpecLoading ==
    InitLoading /\ [][NextLoading]_vars /\ WF_vars(Resolves \/ Rejects)

----------------------------------------------------------------------------
(* Properties of the merged list (fetchUserTweets).                        *)

Loaded == phase \in {"loaded", "rendered"}

IdsOf(list) == {list[i].id : i \in 1..Len(list)}

\* How many records of the list have this id.
Occurrences(list, id) == Cardinality({i \in 1..Len(list) : list[i].id = id})

\* C1: the merged list returned by fetchUserTweets holds no id more than
\* once, whatever the three batches repeat.
C1_MergedIdsUnique ==
    Loaded => \A id \in Ids : Occurrences(responseData, id) <= 1

\* C2: an id of the primary batch that also occurs in the included or the
\* replied-to batch is in the merged list as its primary copies only: every
\* record with that id is a primary one, and every primary one is there.
C2_PrimaryCopyWins ==
    Loaded =>
        \A id \in IdsOf(rawTweets) \cap IdsOf(includesTweets \o repliedToTweets) :
            /\ \A i \in 1..Len(responseData) :
                   responseData[i].id = id => responseData[i].source = "main"
            /\ Occurrences(responseData, id) = Occurrences(rawTweets, id)
            /\ Occurrences(responseData, id) >= 1

\* C2's case: an id is in the primary batch and in both supplementary ones.
C2_Witness ==
    /\ Loaded
    /\ IdsOf(rawTweets) \cap IdsOf(includesTweets) \cap IdsOf(repliedToTweets) # {}

\* C3: the repliedTo value of a merged record carries no repliedTo, no
\* children and no reply-linkage field of its own.
C3_SnapshotIsFlat ==
    Loaded =>
        \A i \in 1..Len(responseData) :
            Len(responseData[i].repliedTo) > 0 =>
                DOMAIN responseData[i].repliedTo[1] \cap NestingFields = {}

\* C3's case: a primary record embeds a reply target that has a reply target
\* and children of its own, and got its snapshot.
C3_Witness ==
    /\ Loaded
    /\ \E i \in 1..Len(rawTweets) :
          /\ Len(rawTweets[i].replied_to) > 0
          /\ Len(rawTweets[i].replied_to[1].repliedTo) > 0
          /\ Len(rawTweets[i].replied_to[1].children) > 0
          /\ Len(responseData[i].repliedTo) > 0

----------------------------------------------------------------------------
(* Properties of the forest (organizeTweetsIntoThreads).                   *)

\* Every node of a forest in document order, each with the ids on the path
\* from its root down to its parent.
RECURSIVE NodesOf(_, _)
NodesOf(f, path) ==
    Flatten([i \in 1..Len(f) |->
                <<[node |-> f[i], path |-> path]>>
                \o NodesOf(f[i].children, Append(path, f[i].id))])

Organized == phase = "organized"

ForestNodes == NodesOf(forest, <<>>)

\* How many nodes of the returned forest have this id.
NodesWithId(id) ==
    Cardinality({n \in 1..Len(ForestNodes) : ForestNodes[n].node.id = id})

PathIds(n) == {ForestNodes[n].path[k] : k \in 1..Len(ForestNodes[n].path)}

PairwiseDistinctIds(list) ==
    \A i, j \in 1..Len(list) : i # j => list[i].id # list[j].id

\* The input is two records of one conversation that name each other as
\* reply target.
TwoCycle ==
    /\ Len(tweets) = 2
    /\ tweets[1].id # tweets[2].id
    /\ tweets[1].conversationId # 0
    /\ tweets[1].conversationId = tweets[2].conversationId
    /\ tweets[1].inReplyToId = tweets[2].id
    /\ tweets[2].inReplyToId = tweets[1].id

\* C4: for two records of one conversation that reply to each other, the
\* returned forest holds neither record more than once and nests no deeper
\* than the two records allow.
C4_TwoCycleNotDuplicated ==
    (Organized /\ TwoCycle) =>
        /\ \A i \in 1..2 : NodesWithId(tweets[i].id) <= 1
        /\ \A n \in 1..Len(ForestNodes) : Len(ForestNodes[n].path) < 2

\* C5: no node of the returned forest has a descendant with its own id.
C5_NoSelfDescendant ==
    Organized =>
        \A n \in 1..Len(ForestNodes) : ForestNodes[n].node.id \notin PathIds(n)

\* C6: for an input with pairwise-distinct ids, no id is at more than one
\* node of the returned forest.
C6_NoDuplicateNode ==
    (Organized /\ PairwiseDistinctIds(tweets)) =>
        \A id \in Ids : NodesWithId(id) <= 1

\* C7: a non-root node's inReplyToId is the id of its parent, and its own id
\* is another one.
C7_ParentConsistency ==
    Organized =>
        \A n \in 1..Len(ForestNodes) :
            LET path == ForestNodes[n].path
                node == ForestNodes[n].node
            IN  Len(path) > 0 =>
                    /\ node.inReplyToId = path[Len(path)]
                    /\ node.id # path[Len(path)]

----------------------------------------------------------------------------
(* Properties of the rendered output (renderResults).                      *)

Rendered == phase = "rendered"

Blocks == rendered.blocks

\* The smallest createdAt of a non-empty list.
Earliest(list) ==
    CHOOSE t \in {list[i].createdAt : i \in 1..Len(list)} :
        \A i \in 1..Len(list) : t <= list[i].createdAt

NonDecreasing(list) ==
    \A p, q \in 1..Len(list) : p < q => list[p].createdAt <= list[q].createdAt

\* Every list of siblings of the output: the root trees of each block and
\* the children of every node.
SiblingLists ==
    {Blocks[b].threads : b \in 1..Len(Blocks)}
    \cup UNION {LET nodes == NodesOf(Blocks[b].threads, <<>>) IN
                {nodes[n].node.children : n \in 1..Len(nodes)}
                : b \in 1..Len(Blocks)}

\* C8: the conversation blocks come in ascending order of the earliest
\* createdAt among their members, and no standalone block comes before a
\* conversation block.
C8_GroupsAscendingThenStandalone ==
    Rendered =>
        \A p, q \in 1..Len(Blocks) :
            (p < q /\ Blocks[q].kind = "conversation") =>
                /\ Blocks[p].kind = "conversation"
                /\ Earliest(Blocks[p].tweets) <= Earliest(Blocks[q].tweets)

\* C8's case: the conversation that comes first in the merged list is the
\* younger of two, and a standalone tweet is older than every grouped one.
C8_Witness ==
    /\ Rendered
    /\ Len(Blocks) = 3
    /\ Blocks[1].kind = "conversation"
    /\ Blocks[2].kind = "conversation"
    /\ Blocks[3].kind = "standalone"
    /\ responseData[1].conversationId = Blocks[2].conversationId
    /\ Earliest(Blocks[1].tweets) < Earliest(Blocks[2].tweets)
    /\ Earliest(Blocks[3].tweets) < Earliest(Blocks[1].tweets)
    /\ Len(Blocks[3].threads) > 0

\* C9: the root trees of every block and the children of every node are
\* non-decreasing in createdAt.
C9_SiblingsNonDecreasing ==
    Rendered => \A list \in SiblingLists : NonDecreasing(list)

\* Some record with the first id precedes some record with the second one
\* in the merged list.
MergedBefore(id1, id2) ==
    \E i, j \in 1..Len(responseData) :
        i < j /\ responseData[i].id = id1 /\ responseData[j].id = id2

\* The index at which a conversation first occurs in the merged list.
FirstOfConversation(c) ==
    FirstIndex([i \in 1..Len(responseData) |->
                   responseData[i].conversationId = c])

\* C10: two conversation blocks with equal earliest createdAt, and two
\* siblings (root trees of a block, children of a node) with equal
\* createdAt, stand in the order the merged list has them in.
C10_TiesKeepMergeOrder ==
    Rendered =>
        /\ \A p, q \in 1..Len(Blocks) :
              (/\ p < q
               /\ Blocks[p].kind = "conversation"
               /\ Blocks[q].kind = "conversation"
               /\ Earliest(Blocks[p].tweets) = Earliest(Blocks[q].tweets)) =>
                  FirstOfConversation(Blocks[p].conversationId)
                      < FirstOfConversation(Blocks[q].conversationId)
        /\ \A list \in SiblingLists :
              \A p, q \in 1..Len(list) :
                  (/\ p < q
                   /\ list[p].createdAt = list[q].createdAt
                   /\ list[p].id # list[q].id) =>
                      MergedBefore(list[p].id, list[q].id)

----------------------------------------------------------------------------
(* Properties of the whole pipeline (fetchUserTweets, then renderResults). *)

\* The records of the three batches, in merge order.
AllRaw == rawTweets \o includesTweets \o repliedToTweets

\* The response holds exactly post A (id 1, no conversationId, no reply
\* target) and post B (id 2, in_reply_to_status_id 1, no conversationId),
\* in any batches and in any order.
Exchange ==
    LET postA == RawTweet(1, 1, 0)
        postB == [RawTweet(2, 1, 0) EXCEPT !.in_reply_to_status_id = 1]
    IN  /\ Len(AllRaw) = 2
        /\ {AllRaw[1], AllRaw[2]} = {postA, postB}

\* C11: for post A and its reply B, neither with a conversationId, the
\* output is one conversation block keyed 1 whose only root is A and whose
\* only other node is B, the child of A, whichever batches they came in.
C11_BackfillExchange ==
    (Rendered /\ Exchange) =>
        /\ Len(Blocks) = 1
        /\ Blocks[1].kind = "conversation"
        /\ Blocks[1].conversationId = 1
        /\ Len(Blocks[1].threads) = 1
        /\ Blocks[1].threads[1].id = 1
        /\ Len(Blocks[1].threads[1].children) = 1
        /\ Blocks[1].threads[1].children[1].id = 2
        /\ Blocks[1].threads[1].children[1].children = <<>>

----------------------------------------------------------------------------
(* Properties of reply resolution (fetchUserTweets).                       *)

\* Primary record i has no inline reply target.
NoEmbed(i) == rawTweets[i].replied_to = <<>> /\ rawTweets[i].repliedTo = <<>>

\* The references list of primary record i has a reply entry that names
\* id k and carries no record, and no reply entry before it.
ReplyReference(i, k) ==
    LET refs == rawTweets[i].referenced_tweets IN
    \E r \in 1..Len(refs) :
        /\ refs[r].type = "replied_to" /\ refs[r].id = k /\ refs[r].tweet = <<>>
        /\ \A q \in 1..(r - 1) : refs[q].type # "replied_to"

\* The case of C12: primary record i names k in a reply entry of its
\* references list, embeds nothing, and only the included batch has k.
ByReferenceOnly(i, k) ==
    /\ NoEmbed(i)
    /\ ReplyReference(i, k)
    /\ k \in IdsOf(includesTweets)
    /\ k \notin IdsOf(rawTweets) \cup IdsOf(repliedToTweets)

\* C12: a primary record that names its reply target only in a reply entry
\* of its references list, the target being in the included batch alone,
\* gets the snapshot of the included record as repliedTo, and the included
\* record is in the merged list as a record of its own tagged includes.
C12_ReplyByReference ==
    Loaded =>
        \A i \in 1..Len(rawTweets) : \A k \in Ids :
            ByReferenceOnly(i, k) =>
                \E n \in 1..Len(includesTweets) :
                    /\ includesTweets[n].id = k
                    /\ responseData[i].repliedTo =
                           <<[id |-> k,
                              createdAt |-> includesTweets[n].createdAt]>>
                    /\ \E j \in 1..Len(responseData) :
                           /\ responseData[j].id = k
                           /\ responseData[j].source = "includes"
                           /\ responseData[j].createdAt =
                                  includesTweets[n].createdAt

\* C12's case, with an in_reply_to_status_id that names another record.
C12_Witness ==
    /\ Loaded
    /\ \E i \in 1..Len(rawTweets) : \E k \in Ids :
          /\ ByReferenceOnly(i, k)
          /\ rawTweets[i].in_reply_to_status_id \notin {0, k}

----------------------------------------------------------------------------
(* Properties of a repeated run.                                           *)

\* The output of one run of the pipeline on the three batches of the
\* response, whatever ran before.
OneRun ==
    RenderResultsView(FetchUserTweets(rawTweets, includesTweets, repliedToTweets))

----------------------------------------------------------------------------
(* Properties of malformed responses.                                      *)

\* Every batch of the response is an array or a falsy value.
NoOtherBatch == \A loc \in Locations : batchKind[loc] # "other"

\* The nodes of every block of the output.
OutputNodes ==
    Flatten([b \in 1..Len(Blocks) |-> NodesOf(Blocks[b].threads, <<>>)])

\* C14: a raw record without id, in whichever batch, leaves no record in
\* the merged list and no node in the output, and no error is recorded.
C14_NoIdRecordDropped ==
    (Loaded /\ NoOtherBatch) =>
        /\ error = ""
        /\ \A i \in 1..Len(responseData) : responseData[i].id # 0
        /\ \A n \in 1..Len(OutputNodes) : OutputNodes[n].node.id # 0

\* C15: whatever the three batches are, no error reaches the caller, every
\* primary record is in the merged list at its place, and every record of
\* a supplementary array that has an id no primary record has is in it too.
C15_NonArrayBatchIsEmpty ==
    Loaded =>
        /\ error = ""
        /\ Len(responseData) >= Len(rawTweets)
        /\ \A i \in 1..Len(rawTweets) : responseData[i].id = rawTweets[i].id
        /\ \A id \in IdsOf(includesTweets \o repliedToTweets) :
              (id # 0 /\ id \notin IdsOf(rawTweets)) =>
                  id \in IdsOf(responseData)

----------------------------------------------------------------------------
(* Properties of the provenance tag.                                       *)

\* The batch a _source value stands for.
BatchOf(source) ==
    IF source = "main" THEN rawTweets
    ELSE IF source = "includes" THEN includesTweets
    ELSE IF source = "replied_to" THEN repliedToTweets
    ELSE <<>>

\* C16: every node of the output, after fetchUserTweets and after
\* advancedSearch, has one of the three _source values, and the batch that
\* value stands for holds a record with the node's id.
C16_NodesCarryProvenance ==
    Rendered =>
        \A n \in 1..Len(OutputNodes) :
            LET node == OutputNodes[n].node IN
            /\ node.source \in {"main", "includes", "replied_to"}
            /\ node.id \in IdsOf(BatchOf(node.source))

----------------------------------------------------------------------------
(* Properties of the resolution order (fetchUserTweets).                   *)

\* The snapshot of a raw record: the fields of it the model keeps.
SnapshotOf(raw) == [id |-> raw.id, createdAt |-> raw.createdAt]

\* The global table of the response at this id, as an optional.
Table(id) == TweetMapGet(rawTweets, includesTweets, repliedToTweets, id)

\* Source 1 of primary record i: the record it embeds.
Embedded(i) ==
    IF Len(rawTweets[i].replied_to) > 0 THEN rawTweets[i].replied_to
    ELSE rawTweets[i].repliedTo

\* Source 2: the first reply entry of its references list, by its inline
\* record, else by its id in the global table.
ReplyEntry(i) ==
    LET refs == rawTweets[i].referenced_tweets
        at == {r \in 1..Len(refs) : refs[r].type = "replied_to"}
    IN  IF at = {} THEN <<>>
        ELSE <<refs[CHOOSE r \in at : \A q \in at : r <= q]>>

ByReference(i) ==
    LET entry == ReplyEntry(i) IN
    IF Len(entry) = 0 THEN <<>>
    ELSE IF Len(entry[1].tweet) > 0 THEN entry[1].tweet
    ELSE Table(entry[1].id)

\* The reply-target id of primary record i: in_reply_to_status_id, and
\* the explicit inReplyToId when that is missing.
ReplyTargetId(i) ==
    IF rawTweets[i].in_reply_to_status_id # 0
    THEN rawTweets[i].in_reply_to_status_id
    ELSE rawTweets[i].inReplyToId

\* Source 3: its reply-target id in the global table, else in the primary
\* batch.
ByReplyId(i) ==
    LET k == ReplyTargetId(i)
        at == {n \in 1..Len(rawTweets) : rawTweets[n].id = k}
    IN  IF k = 0 THEN <<>>
        ELSE IF Len(Table(k)) > 0 THEN Table(k)
        ELSE IF at = {} THEN <<>>
        ELSE <<rawTweets[CHOOSE n \in at : \A q \in at : n <= q]>>

\* The first of the three sources that yields a record.
FirstSource(i) ==
    IF Len(Embedded(i)) > 0 THEN Embedded(i)
    ELSE IF Len(ByReference(i)) > 0 THEN ByReference(i)
    ELSE ByReplyId(i)

\* C17: the repliedTo of every primary record is the snapshot of what the
\* first yielding source of (1) inline record, (2) reply entry of the
\* references list, (3) reply-target id gives, and absent when none yields.
C17_ResolutionPriority ==
    Loaded =>
        \A i \in 1..Len(rawTweets) :
            responseData[i].repliedTo =
                IF Len(FirstSource(i)) > 0
                THEN <<SnapshotOf(FirstSource(i)[1])>> ELSE <<>>

\* C18: a primary record without inline record and without reply entry,
\* whose reply-target id (the explicit inReplyToId alone included) is the
\* id of a record of some batch, has the snapshot of such a record as
\* repliedTo.
C18_ResolvedByTargetId ==
    Loaded =>
        \A i \in 1..Len(rawTweets) :
            (/\ NoEmbed(i)
             /\ Len(ReplyEntry(i)) = 0
             /\ ReplyTargetId(i) # 0
             /\ ReplyTargetId(i) \in IdsOf(AllRaw)) =>
                \E n \in 1..Len(AllRaw) :
                    /\ AllRaw[n].id = ReplyTargetId(i)
                    /\ responseData[i].repliedTo = <<SnapshotOf(AllRaw[n])>>

----------------------------------------------------------------------------
(* Properties of the global lookup table (fetchUserTweets).                *)

\* The records of a list as a set.
RecordsOf(list) == {list[n] : n \in 1..Len(list)}

\* The records of the included and of the replied-to batch.
Supplementary == RecordsOf(includesTweets \o repliedToTweets)

\* Primary record i is resolved by id alone, and its reply target is k.
ByIdAlone(i, k) ==
    /\ NoEmbed(i)
    /\ Len(ReplyEntry(i)) = 0
    /\ rawTweets[i].in_reply_to_status_id = k

----------------------------------------------------------------------------
(* Properties of the conversation backfill (fetchUserTweets).              *)

\* Primary record n references this id: one of its reply-target id fields
\* is the id, or its references list cites it.
Cites(n, id) ==
    \/ rawTweets[n].in_reply_to_status_id = id
    \/ rawTweets[n].inReplyToId = id
    \/ \E r \in 1..Len(rawTweets[n].referenced_tweets) :
           rawTweets[n].referenced_tweets[r].id = id

\* The first primary record that references the id (0 when none does).
FirstCiting(id) ==
    FirstIndex([n \in 1..Len(rawTweets) |-> Cites(n, id)])

\* C20: an included or replied-to record of the merged list that a primary
\* record references has the conversationId of the first such record, or,
\* when that one has none, both have the id of that record as theirs.
C20_BackfillFromReferencing ==
    Loaded =>
        \A j \in (Len(rawTweets) + 1)..Len(responseData) :
            LET n == FirstCiting(responseData[j].id) IN
            n # 0 =>
                IF rawTweets[n].conversationId # 0
                THEN /\ responseData[j].conversationId =
                           rawTweets[n].conversationId
                     /\ responseData[n].conversationId =
                           rawTweets[n].conversationId
                ELSE /\ responseData[j].conversationId = rawTweets[n].id
                     /\ responseData[n].conversationId = rawTweets[n].id

----------------------------------------------------------------------------
(* Properties of the grouping (fetchUserTweets, then renderResults).       *)

\* The raw records that have a record in the merged list: the primary ones,
\* and the supplementary ones with an id that no primary record has.
MergedRaws ==
    RecordsOf(rawTweets)
    \cup {raw \in Supplementary : raw.id # 0 /\ raw.id \notin IdsOf(rawTweets)}

\* The conversation blocks of the output that hold a record with this id.
BlocksWith(id) ==
    {b \in 1..Len(Blocks) :
        Blocks[b].kind = "conversation" /\ id \in IdsOf(Blocks[b].tweets)}

\* C21: a record whose raw form has a conversationId is grouped, in the
\* output, in the conversation block with exactly that conversationId;
\* the backfill leaves the conversationId of such a record alone.
C21_OwnConversationKept ==
    (Rendered /\ rendered.view = "threads") =>
        \A raw \in MergedRaws :
            raw.conversationId # 0 =>
                \E b \in BlocksWith(raw.id) :
                    Blocks[b].conversationId = raw.conversationId

\* The blocks of the output in which a node with this id is a root.
RootBlocks(id, kind) ==
    {b \in 1..Len(Blocks) :
        Blocks[b].kind = kind /\ id \in IdsOf(Blocks[b].threads)}

\* The conversation blocks with this conversationId in which some node,
\* root or not, has this id.
NodeBlocks(id, c) ==
    {b \in 1..Len(Blocks) :
        /\ Blocks[b].kind = "conversation"
        /\ Blocks[b].conversationId = c
        /\ \E n \in 1..Len(NodesOf(Blocks[b].threads, <<>>)) :
               NodesOf(Blocks[b].threads, <<>>)[n].node.id = id}

\* The conversationIds of the merged records that have this id.
ConversationsOf(id) ==
    {responseData[p].conversationId : p \in
        {q \in 1..Len(responseData) :
            responseData[q].id = id /\ responseData[q].conversationId # 0}}

\* C22: a merged record without conversationId that is a reply to a record
\* of a conversation is a node of that conversation's block; one that is no
\* reply, or whose parent is not in the merged list, is a root of the
\* standalone block.
C22_OrphanReplyFolded ==
    (Rendered /\ rendered.view = "threads") =>
        \A j \in 1..Len(responseData) :
            LET t == responseData[j] IN
            t.conversationId = 0 =>
                IF t.isReply /\ t.inReplyToId # 0
                   /\ ConversationsOf(t.inReplyToId) # {}
                THEN \E c \in ConversationsOf(t.inReplyToId) :
                         NodeBlocks(t.id, c) # {}
                ELSE (~t.isReply \/ t.inReplyToId \notin IdsOf(responseData)) =>
                         RootBlocks(t.id, "standalone") # {}

----------------------------------------------------------------------------
(* Properties of the standalone set (organizeTweetsIntoThreads).           *)

\* Input record i is a standalone reply to the standalone record j.
StandaloneReply(i, j) ==
    /\ i # j
    /\ tweets[i].conversationId = 0
    /\ tweets[j].conversationId = 0
    /\ tweets[i].isReply
    /\ tweets[j].id # 0
    /\ tweets[i].inReplyToId = tweets[j].id

\* C23: for an input with pairwise-distinct ids, a standalone reply to
\* another standalone record is no root of the returned forest and is a
\* child of a node with the parent's id.
C23_StandaloneReplyNested ==
    (Organized /\ PairwiseDistinctIds(tweets)) =>
        \A i, j \in 1..Len(tweets) :
            StandaloneReply(i, j) =>
                /\ tweets[i].id \notin IdsOf(forest)
                /\ \E n \in 1..Len(ForestNodes) :
                       /\ ForestNodes[n].node.id = tweets[i].id
                       /\ Len(ForestNodes[n].path) > 0
                       /\ ForestNodes[n].path[Len(ForestNodes[n].path)]
                              = tweets[j].id

----------------------------------------------------------------------------
(* Properties of the normalised reply linkage.                             *)

\* The isReply a normalised record must have for this raw record: the
\* explicit boolean when the raw record has one, else whether the
\* normalised inReplyToId is there.
IsReplyAgrees(t, raw) ==
    IF raw.isReply # "undef" THEN t.isReply = (raw.isReply = "true")
    ELSE t.isReply = (t.inReplyToId # 0)

\* C24: every record of the merged list, primary or supplementary, has the
\* explicit isReply of its raw record, and without one is a reply exactly
\* when its inReplyToId is there.
C24_IsReplyMatchesTarget ==
    (Loaded /\ error = "") =>
        /\ \A i \in 1..Len(rawTweets) :
              IsReplyAgrees(responseData[i], rawTweets[i])
        /\ \A j \in (Len(rawTweets) + 1)..Len(responseData) :
              \E raw \in Supplementary :
                  /\ raw.id = responseData[j].id
                  /\ IsReplyAgrees(responseData[j], raw)

----------------------------------------------------------------------------
(* Properties of the normalised counts.                                    *)

\* The view-count candidates a raw record supplies, in the order the
\* normalisation reads them.
ViewCandidates(raw) == raw.viewCount \o raw.view_count \o raw.impression_count

LikeCandidates(raw) == raw.likeCount \o raw.like_count \o raw.metrics_like_count

\* The counts a normalised record must have for this raw record: no view
\* count exactly when none is supplied, 0 when the only counts supplied
\* are 0, and a like count of 0 when none is supplied.
CountsKept(t, raw) ==
    /\ (Len(t.viewCount) = 0) <=> (Len(ViewCandidates(raw)) = 0)
    /\ (/\ Len(ViewCandidates(raw)) > 0
        /\ \A k \in 1..Len(ViewCandidates(raw)) : ViewCandidates(raw)[k] = 0)
           => t.viewCount = <<0>>
    /\ (Len(LikeCandidates(raw)) = 0) => t.likeCount = <<0>>

\* C25: viewCount is absent exactly when the raw record supplies no view
\* count, a supplied 0 stays 0, and likeCount is 0 when the raw record
\* supplies no like count.
C25_ViewCountAbsentOrKept ==
    (Loaded /\ error = "") =>
        /\ \A i \in 1..Len(rawTweets) :
              CountsKept(responseData[i], rawTweets[i])
        /\ \A j \in (Len(rawTweets) + 1)..Len(responseData) :
              \E raw \in Supplementary :
                  /\ raw.id = responseData[j].id
                  /\ CountsKept(responseData[j], raw)

----------------------------------------------------------------------------
(* Properties of the forest of one conversation.                           *)

\* The input is one conversation: every record has the same conversationId.
OneConversation ==
    /\ Len(tweets) > 0
    /\ \A i \in 1..Len(tweets) :
          /\ tweets[i].conversationId # 0
          /\ tweets[i].conversationId = tweets[1].conversationId

ForestIds == {ForestNodes[n].node.id : n \in 1..Len(ForestNodes)}

\* C28: with pairwise-distinct ids and one conversationId, every input
\* record is in the returned forest, as a root or below one.
C28_NoRecordLost ==
    (Organized /\ PairwiseDistinctIds(tweets) /\ OneConversation) =>
        \A i \in 1..Len(tweets) : tweets[i].id \in ForestIds

----------------------------------------------------------------------------
(* Properties comparing the two entry points.                              *)

\* What fetchUserTweets and advancedSearch return for the batches of the
\* state.
FetchResult == FetchUserTweets(rawTweets, includesTweets, repliedToTweets)

SearchResult == AdvancedSearch(rawTweets, includesTweets, repliedToTweets)

\* C29: for the same three batches both entry points return the same ids
\* in the same order, with the same conversationId on every record.
C29_EntryPointsAgree ==
    (Loaded /\ batchKind = AllArrays) =>
        /\ Len(FetchResult) = Len(SearchResult)
        /\ \A j \in 1..Len(FetchResult) :
              j <= Len(SearchResult) =>
                  /\ FetchResult[j].id = SearchResult[j].id
                  /\ FetchResult[j].conversationId
                         = SearchResult[j].conversationId

----------------------------------------------------------------------------
(* Properties of organizeTweetsIntoThreads taken step by step.             *)

\* C26: whatever the input list (reply cycles, self-replies, repeated ids,
\* records without id), the call reaches its return statement; no step of
\* it can throw, so it returns the forest.
C26_OrganizeTerminates == <>(phase = "organized")

\* The call has returned for an input in which two records of one
\* conversation reply to each other, one of them was walked from a root,
\* and a record has no id.
C26_Witness ==
    /\ phase = "organized"
    /\ \E i, j \in 1..Len(tweets) :
          /\ i # j
          /\ tweets[i].conversationId = 1
          /\ tweets[j].conversationId = 1
          /\ tweets[i].id # tweets[j].id
          /\ tweets[i].inReplyToId = tweets[j].id
          /\ tweets[j].inReplyToId = tweets[i].id
    /\ \E k \in 1..Len(tweets) : tweets[k].id = 0
    /\ \E r \in 1..Len(rootTweets) :
          \E c \in 1..Len(heap[rootTweets[r]].children) :
              Len(heap[heap[rootTweets[r]].children[c]].children) > 0

\* Every reference the call holds as a node of the forest under
\* construction.
NodeRefs ==
    {rootTweets[k] : k \in 1..Len(rootTweets)}
    \cup {stack[k].parentTweet : k \in 1..Len(stack)}
    \cup UNION {{stack[k].out[m] : m \in 1..Len(stack[k].out)}
                   : k \in 1..Len(stack)}
    \cup UNION {{heap[r].children[m] : m \in 1..Len(heap[r].children)}
                   : r \in (Len(tweets) + 1)..Len(heap)}

\* C27: at every point of the call the objects of the input array are
\* what they were when it began, and every node of the forest is an
\* object the call created.
C27_InputUntouched ==
    (phase \in {"organizing", "organized"}) =>
        /\ Len(heap) >= Len(tweets)
        /\ \A i \in 1..Len(tweets) : heap[i] = tweets[i]
        /\ \A r \in NodeRefs : r > Len(tweets)

\* The call has returned a root that was given children.
C27_Witness ==
    /\ phase = "organized"
    /\ \E r \in 1..Len(rootTweets) : Len(heap[rootTweets[r]].children) > 0

----------------------------------------------------------------------------
(* Properties of the loading state.                                        *)

\* This step is handleLoadMore issuing its request.
LoadMoreStarts ==
    /\ Len(pending') = Len(pending) + 1
    /\ pending'[Len(pending')] = "handleLoadMore"

\* C30: once isLoading is true it becomes false again when the request
\* settles, resolved or rejected; and handleLoadMore issues a request only
\* when isLoading is false and nextCursor is not empty.
C30_LoadingEnds ==
    /\ isLoading ~> ~isLoading
    /\ [][LoadMoreStarts => (~isLoading /\ nextCursor # 0)]_vars

\* Nothing is loading after a search, a handleLoadMore that resolved and a
\* handleLoadMore that was rejected.
C30_Witness ==
    /\ ~isLoading
    /\ pending = <<>>
    /\ Len(responseData) = 2
    /\ error # ""
====
